---- MODULE Spec2Model ----
(***************************************************************************)
(* Model of src/utils/utils.py: the layer-wise learning-rate-decay         *)
(* parameter-group builder (layerwise_learning_rate_decay), the Accuracy   *)
(* metric (update / compute with "sum" reduction over workers) and the     *)
(* configuration helper extras.                                            *)
(*                                                                         *)
(* Floating-point values (learning rates, weight decay, the decay factor,  *)
(* the accuracy ratio) are modelled as exact rationals <<num, den>> with   *)
(* den > 0; rounding is not modelled.                                      *)
(***************************************************************************)
EXTENDS Integers, Sequences, FiniteSets, TLC

VARIABLES
    \* ---- layerwise_learning_rate_decay: arguments
    model,                              \* [fc, embeddings, layer]
    learning_rate,
    weight_decay,
    layerwise_learning_rate_factor,
    layerwise_learning_rate_flag,
    \* ---- layerwise_learning_rate_decay: locals and result
    pc,
    optimizer_grouped_parameters,
    layers,
    lr,
    result,
    \* ---- Accuracy metric
    correct,                            \* per worker
    total,                              \* per worker
    updates,                            \* number of update() calls so far
    reported,                           \* every pair handed to update(), per pair
    computed,                           \* value of the latest compute()
    \* ---- extras
    config,
    passed,                             \* the configuration as passed to extras
    extrasPc,
    warnings_ignored

builderVars == <<model, learning_rate, weight_decay, layerwise_learning_rate_factor,
                 layerwise_learning_rate_flag, pc, optimizer_grouped_parameters,
                 layers, lr, result>>
metricVars == <<correct, total, updates, reported, computed>>
extrasVars == <<config, passed, extrasPc, warnings_ignored>>
vars == <<builderVars, metricVars, extrasVars>>

----------------------------------------------------------------------------
(* Bounds *)

MaxLayers == 2
NumWorkers == 2
MaxBatch == 2
MaxUpdates == 2
MaxGpus == 2
MaxLoaderWorkers == 4

----------------------------------------------------------------------------
(* Exact rationals standing for Python floats *)

Mul(a, b) == <<a[1] * b[1], a[2] * b[2]>>
RatEq(a, b) == a[1] * b[2] = b[1] * a[2]
RatLess(a, b) == a[1] * b[2] < b[1] * a[2]

RECURSIVE Pow(_, _)
Pow(a, k) == IF k = 0 THEN <<1, 1>> ELSE Mul(a, Pow(a, k - 1))

Range(s) == {s[i] : i \in 1..Len(s)}

----------------------------------------------------------------------------
(* layerwise_learning_rate_decay *)

\* Python's `nd in n` on strings: nd is a contiguous substring of n.
Contains(n, nd) ==
    \E i \in 1..(Len(n) - Len(nd) + 1) : SubSeq(n, i, i + Len(nd) - 1) = nd

no_decay == <<"bias", "LayerNorm.weight">>

NameEndsWithNoDecay(n) ==
    \E j \in 1..Len(no_decay) :
        /\ Len(n) >= Len(no_decay[j])
        /\ SubSeq(n, Len(n) - Len(no_decay[j]) + 1, Len(n)) = no_decay[j]

\* any(nd in n for nd in no_decay)
IsNoDecay(n) == \E j \in 1..Len(no_decay) : Contains(n, no_decay[j])

\* named_parameters() of a sub-module: one tensor per name, in declaration order
NamedParameters(module, index, names, requires_grad) ==
    [i \in 1..Len(names) |->
        [module |-> module, index |-> index, name |-> names[i],
         requires_grad |-> requires_grad]]

\* The parameter names a sub-module may declare.
ModuleShapes ==
    { <<>>,
      <<"word_embeddings.weight", "LayerNorm.weight", "LayerNorm.bias">>,
      <<"unbiased_scale", "layer_norm.weight">> }

HeadShapes == { <<>>, <<"weight", "bias">> }

\* freeze_layer: every parameter of the pretrained backbone gets
\* requires_grad = False when the flag is set; the head stays trainable.
BuildModel(fcNames, embNames, layerNames, freeze_layer_flag) ==
    [fc |-> NamedParameters("fc", 0, fcNames, TRUE),
     embeddings |-> NamedParameters("embeddings", 0, embNames, ~freeze_layer_flag),
     layer |-> [i \in 1..Len(layerNames) |->
                   NamedParameters("layer", i, layerNames[i], ~freeze_layer_flag)]]

LayerShapeSeqs(n) == [1..n -> ModuleShapes]

Models ==
    { BuildModel(f, e, l, z) :
        f \in HeadShapes, e \in ModuleShapes,
        l \in UNION {LayerShapeSeqs(n) : n \in 0..MaxLayers}, z \in BOOLEAN }

LearningRates == { <<1, 10>>, <<2, 1>> }
WeightDecays == { <<0, 1>>, <<1, 100>> }
DecayFactors == { <<0 - 1, 2>>, <<0, 1>>, <<1, 2>>, <<7, 10>>, <<1, 1>>, <<3, 2>> }

RECURSIVE Flatten(_)
Flatten(ss) == IF ss = <<>> THEN <<>> ELSE Head(ss) \o Flatten(Tail(ss))

TrainableOnly(m) ==
    SelectSeq(m.fc \o m.embeddings \o Flatten(m.layer), LAMBDA p : p.requires_grad)

\* model.parameters(): every parameter of the module tree, trainable or not
ModelParameters(m) == m.fc \o m.embeddings \o Flatten(m.layer)

Reverse(s) == [i \in 1..Len(s) |-> s[Len(s) + 1 - i]]

UnreversedLayers(m) == <<m.embeddings>> \o m.layer

\* layers = [model.model.embeddings] + list(model.model.encoder.layer); layers.reverse()
OrderedLayers(m) == Reverse(<<m.embeddings>> \o m.layer)

HeadGroup(m, wd, base) ==
    [params |-> m.fc, weight_decay |-> wd, lr |-> base]

KeepGroups(groups) == groups

\* optimizer_grouped_parameters = []   (second assignment, before the loop)
ReinitGroups(groups) == <<>>

UndecayedLr(cur, factor) == cur

\* lr *= factor runs before the layer's groups are built, so they carry the product
EmittedLr(cur, factor) == Mul(cur, factor)

LayerGroups(layer, wd, rate) ==
    << [params |-> SelectSeq(layer, LAMBDA p : ~IsNoDecay(p.name)),
        weight_decay |-> wd, lr |-> rate],
       [params |-> SelectSeq(layer, LAMBDA p : IsNoDecay(p.name)),
        weight_decay |-> <<0, 1>>, lr |-> rate] >>

NoResult == [kind |-> "none", groups |-> <<>>, params |-> <<>>]

BuilderInit ==
    /\ model \in Models
    /\ learning_rate \in LearningRates
    /\ weight_decay \in WeightDecays
    /\ layerwise_learning_rate_factor \in DecayFactors
    /\ layerwise_learning_rate_flag \in BOOLEAN
    /\ pc = "call"
    /\ optimizer_grouped_parameters = <<>>
    /\ layers = <<>>
    /\ lr = <<0, 1>>
    /\ result = NoResult

BuilderIdle ==
    /\ model = BuildModel(<<>>, <<>>, <<>>, FALSE)
    /\ learning_rate = <<2, 1>>
    /\ weight_decay = <<1, 100>>
    /\ layerwise_learning_rate_factor = <<7, 10>>
    /\ layerwise_learning_rate_flag = TRUE
    /\ pc = "idle"
    /\ optimizer_grouped_parameters = <<>>
    /\ layers = <<>>
    /\ lr = <<0, 1>>
    /\ result = NoResult

\* lines 219-227: the group of the task-specific head
BuildHeadGroup ==
    /\ pc = "call"
    /\ layerwise_learning_rate_flag
    /\ optimizer_grouped_parameters' = <<HeadGroup(model, weight_decay, learning_rate)>>
    /\ pc' = "head"
    /\ UNCHANGED <<model, learning_rate, weight_decay, layerwise_learning_rate_factor,
                   layerwise_learning_rate_flag, layers, lr, result>>

\* lines 229-232
PrepareLayers ==
    /\ pc = "head"
    /\ layers' = OrderedLayers(model)
    /\ lr' = learning_rate
    /\ optimizer_grouped_parameters' = ReinitGroups(optimizer_grouped_parameters)
    /\ pc' = "loop"
    /\ UNCHANGED <<model, learning_rate, weight_decay, layerwise_learning_rate_factor,
                   layerwise_learning_rate_flag, result>>

\* lines 233-250: one iteration of `for layer in layers`
LoopStep ==
    /\ pc = "loop"
    /\ layers # <<>>
    /\ lr' = Mul(lr, layerwise_learning_rate_factor)
    /\ optimizer_grouped_parameters' =
           optimizer_grouped_parameters \o
           LayerGroups(Head(layers), weight_decay,
                       EmittedLr(lr, layerwise_learning_rate_factor))
    /\ layers' = Tail(layers)
    /\ UNCHANGED <<model, learning_rate, weight_decay, layerwise_learning_rate_factor,
                   layerwise_learning_rate_flag, pc, result>>

\* line 251
ReturnGroups ==
    /\ pc = "loop"
    /\ layers = <<>>
    /\ result' = [kind |-> "groups", groups |-> optimizer_grouped_parameters,
                  params |-> <<>>]
    /\ pc' = "done"
    /\ UNCHANGED <<model, learning_rate, weight_decay, layerwise_learning_rate_factor,
                   layerwise_learning_rate_flag, optimizer_grouped_parameters, layers, lr>>

\* lines 252-253
ReturnParameters ==
    /\ pc = "call"
    /\ ~layerwise_learning_rate_flag
    /\ result' = [kind |-> "parameters", groups |-> <<>>,
                  params |-> ModelParameters(model)]
    /\ pc' = "done"
    /\ UNCHANGED <<model, learning_rate, weight_decay, layerwise_learning_rate_factor,
                   layerwise_learning_rate_flag, optimizer_grouped_parameters, layers, lr>>

----------------------------------------------------------------------------
(* Accuracy(Metric) *)

Workers == 1..NumWorkers
Scores == {1, 5}
Pairs == Scores \X Scores

\* The (less_toxic[i], more_toxic[i]) pairs of one update() call.
Batches == UNION {[1..n -> Pairs] : n \in 0..MaxBatch}

PredsLessOrEqual(a, b) == a <= b

\* preds = less_toxic < more_toxic   (elementwise)
Preds(a, b) == a < b

RECURSIVE PredsSum(_)
PredsSum(batch) ==
    IF batch = <<>> THEN 0
    ELSE (IF Preds(Head(batch)[1], Head(batch)[2]) THEN 1 ELSE 0) + PredsSum(Tail(batch))

RECURSIVE SumOver(_, _)
SumOver(f, S) ==
    IF S = {} THEN 0
    ELSE LET w == CHOOSE x \in S : TRUE IN f[w] + SumOver(f, S \ {w})

\* dist_reduce_fx="sum": the state compute() sees is the sum over all workers
DistReduceSum(f) == SumOver(f, Workers)

Occurrences(batch, pr) == Cardinality({i \in 1..Len(batch) : batch[i] = pr})

NotComputed == [called |-> FALSE, correct |-> 0, total |-> 0, nan |-> FALSE,
                value |-> <<0, 1>>]

MetricInit ==
    /\ correct = [w \in Workers |-> 0]
    /\ total = [w \in Workers |-> 0]
    /\ updates = 0
    /\ reported = [pr \in Pairs |-> 0]
    /\ computed = NotComputed

\* update(less_toxic, more_toxic) on worker w
Update(w, batch) ==
    /\ updates < MaxUpdates
    /\ correct' = [correct EXCEPT ![w] = @ + PredsSum(batch)]
    /\ total' = [total EXCEPT ![w] = @ + Len(batch)]
    /\ updates' = updates + 1
    /\ reported' = [pr \in Pairs |-> reported[pr] + Occurrences(batch, pr)]
    /\ computed' = NotComputed

\* compute() after the cross-worker reduction: correct.float() / total
Compute ==
    /\ computed' =
         LET c == DistReduceSum(correct)
             t == DistReduceSum(total)
         IN [called |-> TRUE, correct |-> c, total |-> t, nan |-> (t = 0),
             value |-> IF t = 0 THEN <<0, 1>> ELSE <<c, t>>]
    /\ UNCHANGED <<correct, total, updates, reported>>

----------------------------------------------------------------------------
(* extras(config) *)

\* A configuration value is <<>> when the key is absent (config.get gives None)
\* and <<v>> when it is set to v.
None == <<>>
OptBool == {None, <<TRUE>>, <<FALSE>>}

TruthyBool(x) == x = <<TRUE>>
TruthyInt(x) == x # None /\ x[1] # 0
TruthyStr(x) == x # None /\ x[1] # ""

Configs ==
    [ignore_warnings : OptBool,
     experiment_mode : {None, <<TRUE>>},
     name : {None, <<"">>, <<"baseline">>},
     seed : {<<42>>},
     trainer : [fast_dev_run : OptBool,
                gpus : {None} \cup {<<g>> : g \in 0..MaxGpus},
                max_epochs : {<<10>>}],
     datamodule : [pin_memory : OptBool,
                   num_workers : {None} \cup {<<n>> : n \in {0, MaxLoaderWorkers}},
                   batch_size : {<<32>>}]]

NameIsNone(c) == TruthyBool(c.experiment_mode) /\ c.name = None

\* config.get("experiment_mode") and not config.get("name")
MissingName(c) == TruthyBool(c.experiment_mode) /\ ~TruthyStr(c.name)

ForceDebugUnconditional(c) ==
    [c EXCEPT !.trainer.gpus = <<0>>,
              !.datamodule.pin_memory = <<FALSE>>,
              !.datamodule.num_workers = <<0>>]

\* lines 68-73: each setting is overwritten only when it is truthy
ForceDebugConfig(c) ==
    [c EXCEPT !.trainer.gpus = IF TruthyInt(@) THEN <<0>> ELSE @,
              !.datamodule.pin_memory = IF TruthyBool(@) THEN <<FALSE>> ELSE @,
              !.datamodule.num_workers = IF TruthyInt(@) THEN <<0>> ELSE @]

ExtrasInit ==
    /\ config \in Configs
    /\ passed = config
    /\ extrasPc = "call"
    /\ warnings_ignored = FALSE

\* lines 51-53
ExtrasIgnoreWarnings ==
    /\ extrasPc = "call"
    /\ warnings_ignored' = TruthyBool(config.ignore_warnings)
    /\ extrasPc' = "verify_name"
    /\ UNCHANGED <<config, passed>>

\* lines 56-62: exit() ends the process here
ExtrasVerifyName ==
    /\ extrasPc = "verify_name"
    /\ extrasPc' = IF MissingName(config) THEN "exited" ELSE "fast_dev_run"
    /\ UNCHANGED <<config, passed, warnings_ignored>>

\* lines 66-73, then the function returns
ExtrasFastDevRun ==
    /\ extrasPc = "fast_dev_run"
    /\ config' = IF TruthyBool(config.trainer.fast_dev_run)
                 THEN ForceDebugConfig(config) ELSE config
    /\ extrasPc' = "returned"
    /\ UNCHANGED <<passed, warnings_ignored>>

ExtrasIdle ==
    /\ config = CHOOSE c \in Configs : TRUE
    /\ passed = config
    /\ extrasPc = "idle"
    /\ warnings_ignored = FALSE

----------------------------------------------------------------------------
(* Specifications *)

Init == BuilderInit /\ MetricInit /\ ExtrasIdle

Next ==
    \/ BuildHeadGroup /\ UNCHANGED <<metricVars, extrasVars>>
    \/ PrepareLayers /\ UNCHANGED <<metricVars, extrasVars>>
    \/ LoopStep /\ UNCHANGED <<metricVars, extrasVars>>
    \/ ReturnGroups /\ UNCHANGED <<metricVars, extrasVars>>
    \/ ReturnParameters /\ UNCHANGED <<metricVars, extrasVars>>

Spec == Init /\ [][Next]_vars

InitAccuracy == BuilderIdle /\ MetricInit /\ ExtrasIdle

NextAccuracy ==
    \/ \E w \in Workers, batch \in Batches :
          Update(w, batch) /\ UNCHANGED <<builderVars, extrasVars>>
    \/ Compute /\ UNCHANGED <<builderVars, extrasVars>>

SpecAccuracy == InitAccuracy /\ [][NextAccuracy]_vars

InitExtras == BuilderIdle /\ MetricInit /\ ExtrasInit

NextExtras ==
    \/ ExtrasIgnoreWarnings /\ UNCHANGED <<builderVars, metricVars>>
    \/ ExtrasVerifyName /\ UNCHANGED <<builderVars, metricVars>>
    \/ ExtrasFastDevRun /\ UNCHANGED <<builderVars, metricVars>>

SpecExtras == InitExtras /\ [][NextExtras]_vars

----------------------------------------------------------------------------
(* Properties of layerwise_learning_rate_decay *)

EnabledDone == pc = "done" /\ layerwise_learning_rate_flag
DisabledDone == pc = "done" /\ ~layerwise_learning_rate_flag

NumLayers == Len(model.layer)

AllParameters == Range(model.fc) \cup Range(model.embeddings)
                    \cup UNION {Range(model.layer[i]) : i \in 1..NumLayers}
TrainableParameters == {p \in AllParameters : p.requires_grad}

\* The places (group, position) at which parameter p occurs in the returned groups.
Places(p) ==
    UNION { { <<g, j>> : j \in {i \in 1..Len(result.groups[g].params) :
                                    result.groups[g].params[i] = p} } :
            g \in 1..Len(result.groups) }

\* The layer processed k-th: k = 1 is the last encoder layer, k = NumLayers + 1
\* the embeddings.
Processed(k) == IF k = NumLayers + 1 THEN model.embeddings
                ELSE model.layer[NumLayers + 1 - k]

HasExemptName(p) ==
    Contains(p.name, "bias") \/ Contains(p.name, "LayerNorm.weight")

FactorInOpenUnit ==
    /\ RatLess(<<0, 1>>, layerwise_learning_rate_factor)
    /\ RatLess(layerwise_learning_rate_factor, <<1, 1>>)

\* C1: with the flag enabled, every trainable parameter of the model appears
\* in exactly one of the returned parameter groups.
C1_EveryTrainableParamInExactlyOneGroup ==
    EnabledDone => \A p \in TrainableParameters : Cardinality(Places(p)) = 1

\* C2: the enabled branch returns exactly 2(L+1) groups, two per layer of
\* [embeddings] + encoder layers, also for layers whose subsets are empty; the
\* head group built first is not among them.
C2_GroupCount ==
    EnabledDone =>
        /\ Len(result.groups) = 2 * (NumLayers + 1)
        /\ \A g \in Range(result.groups) : \A p \in Range(g.params) : p.module # "fc"

C2_Witness ==
    /\ EnabledDone
    /\ NumLayers = 2
    /\ model.fc # <<>>
    /\ \E g \in Range(result.groups) : g.params = <<>>
    /\ Len(result.groups) = 6

\* C3: for 0 < decay_factor < 1 (base rate > 0) both groups of the k-th layer
\* processed carry lr = base * factor^k, those groups hold that layer's
\* parameters, and the rates strictly grow from the embeddings to the last
\* encoder layer.
C3_LrStrictlyDecreasesTowardEmbeddings ==
    (EnabledDone /\ FactorInOpenUnit /\ RatLess(<<0, 1>>, learning_rate)) =>
        /\ Len(result.groups) = 2 * (NumLayers + 1)
        /\ \A k \in 1..(NumLayers + 1) :
            /\ RatEq(result.groups[2 * k - 1].lr,
                     Mul(learning_rate, Pow(layerwise_learning_rate_factor, k)))
            /\ result.groups[2 * k].lr = result.groups[2 * k - 1].lr
            /\ Range(result.groups[2 * k - 1].params)
                  \cup Range(result.groups[2 * k].params) = Range(Processed(k))
        /\ \A k \in 1..NumLayers :
            RatLess(result.groups[2 * k + 1].lr, result.groups[2 * k - 1].lr)

C3_Witness ==
    /\ EnabledDone
    /\ layerwise_learning_rate_factor = <<7, 10>>
    /\ NumLayers = 2
    /\ \A k \in 1..3 : Processed(k) # <<>>
    /\ RatLess(result.groups[5].lr, result.groups[3].lr)
    /\ RatLess(result.groups[3].lr, result.groups[1].lr)

\* C4: each layer's two groups come in the order (non-exempt, exempt); the
\* exempt group holds exactly the layer's parameters whose name contains "bias"
\* or "LayerNorm.weight" and has weight_decay 0.0, the other group holds the
\* rest and has the weight_decay passed in.
C4_ExemptPartition ==
    EnabledDone =>
        /\ Len(result.groups) = 2 * (NumLayers + 1)
        /\ \A k \in 1..(NumLayers + 1) :
            /\ result.groups[2 * k - 1].params =
                   SelectSeq(Processed(k), LAMBDA p : ~HasExemptName(p))
            /\ result.groups[2 * k - 1].weight_decay = weight_decay
            /\ result.groups[2 * k].params =
                   SelectSeq(Processed(k), LAMBDA p : HasExemptName(p))
            /\ result.groups[2 * k].weight_decay = <<0, 1>>

C4_Witness ==
    /\ EnabledDone
    /\ weight_decay = <<1, 100>>
    /\ \E k \in 1..(NumLayers + 1) :
        /\ \E p \in Range(result.groups[2 * k].params) : p.name = "unbiased_scale"
        /\ \E p \in Range(result.groups[2 * k - 1].params) : p.name = "layer_norm.weight"
    /\ \E k \in 1..(NumLayers + 1) :
        /\ \E p \in Range(result.groups[2 * k].params) : p.name = "LayerNorm.weight"
        /\ result.groups[2 * k].weight_decay = <<0, 1>>

\* C5 as claimed: with the flag disabled the returned parameter set equals the
\* model's trainable-parameter set, also when some parameters are frozen.
C5_DisabledReturnsTrainableSet ==
    DisabledDone =>
        /\ result.kind = "parameters"
        /\ Range(result.params) = TrainableParameters
        /\ result.groups = <<>>

\* C5 as amended: with the flag disabled the returned parameter set equals the
\* model's full parameter set, frozen parameters included, with no learning
\* rate or weight decay attached; it is the trainable set when nothing is frozen.
C5_DisabledReturnsAllParameters ==
    DisabledDone =>
        /\ result.kind = "parameters"
        /\ Range(result.params) = AllParameters
        /\ result.groups = <<>>
        /\ (AllParameters = TrainableParameters =>
                Range(result.params) = TrainableParameters)

C5_Witness ==
    /\ DisabledDone
    /\ \E p \in Range(result.params) : ~p.requires_grad
    /\ \E p \in Range(result.params) : p.requires_grad
    /\ NumLayers = 2

\* C6: with decay_factor <= 0 the enabled call ends in InvalidDecayFactor and
\* returns no groups; no returned group carries a zero or negative rate.
C6_InvalidDecayFactorRejected ==
    /\ (EnabledDone /\ ~RatLess(<<0, 1>>, layerwise_learning_rate_factor)) =>
            (result.kind = "InvalidDecayFactor" /\ result.groups = <<>>)
    /\ \A g \in Range(result.groups) : RatLess(<<0, 1>>, g.lr)

\* C10 as claimed: for decay_factor in (0, 1] no returned group has the
\* undecayed base rate.
C10_NoGroupAtBaseRate ==
    (/\ EnabledDone
     /\ RatLess(<<0, 1>>, learning_rate)
     /\ RatLess(<<0, 1>>, layerwise_learning_rate_factor)
     /\ ~RatLess(<<1, 1>>, layerwise_learning_rate_factor)) =>
        \A g \in Range(result.groups) : ~RatEq(g.lr, learning_rate)

\* C10 as amended: for decay_factor in (0, 1), the multiplication precedes the
\* first layer's groups, so the first groups carry base * factor and no
\* returned group has the base rate; with decay_factor = 1 every group has it.
C10_NoGroupAtBaseRateBelowOne ==
    (EnabledDone /\ RatLess(<<0, 1>>, learning_rate)) =>
        /\ FactorInOpenUnit =>
            /\ RatEq(result.groups[1].lr,
                     Mul(learning_rate, layerwise_learning_rate_factor))
            /\ \A g \in Range(result.groups) : RatLess(g.lr, learning_rate)
        /\ RatEq(layerwise_learning_rate_factor, <<1, 1>>) =>
            \A g \in Range(result.groups) : RatEq(g.lr, learning_rate)

C10_Witness ==
    /\ EnabledDone
    /\ layerwise_learning_rate_factor = <<1, 2>>
    /\ learning_rate = <<2, 1>>
    /\ NumLayers = 1
    /\ RatEq(result.groups[1].lr, <<1, 1>>)
    /\ RatEq(result.groups[3].lr, <<1, 2>>)

----------------------------------------------------------------------------
(* Properties of Accuracy *)

LessPairs == {pr \in Pairs : pr[1] < pr[2]}

RECURSIVE ReportedIn(_)
ReportedIn(S) ==
    IF S = {} THEN 0
    ELSE LET pr == CHOOSE x \in S : TRUE IN reported[pr] + ReportedIn(S \ {pr})

\* C7: after any updates on any workers and the summation, correct is the
\* number of reported pairs with a < b, total the number of reported pairs,
\* compute() returns correct/total, and 0 <= correct <= total holds on every
\* worker and after reduction.
C7_AccuracyCounts ==
    /\ \A w \in Workers : 0 <= correct[w] /\ correct[w] <= total[w]
    /\ SumOver(correct, Workers) = ReportedIn(LessPairs)
    /\ SumOver(total, Workers) = ReportedIn(Pairs)
    /\ computed.called =>
        /\ computed.correct = ReportedIn(LessPairs)
        /\ computed.total = ReportedIn(Pairs)
        /\ 0 <= computed.correct /\ computed.correct <= computed.total
        /\ computed.nan = (computed.total = 0)
        /\ computed.total > 0 =>
              RatEq(computed.value, <<ReportedIn(LessPairs), ReportedIn(Pairs)>>)

C7_Witness ==
    /\ computed.called
    /\ correct = [w \in Workers |-> w]
    /\ total = [w \in Workers |-> 2]
    /\ computed.correct = 3
    /\ computed.total = 4
    /\ RatEq(computed.value, <<3, 4>>)

----------------------------------------------------------------------------
(* Properties of extras *)

FastDevRunSet == passed.trainer.fast_dev_run = <<TRUE>>

NameRequiredButAbsent ==
    /\ passed.experiment_mode = <<TRUE>>
    /\ passed.name \in {<<>>, <<"">>}

\* C8 as claimed: with fast_dev_run set, extras sets num_workers to 0 and
\* pin_memory to False and leaves every other field untouched; without it no
\* field changes.
C8_FastDevRunTouchesOnlyLoaderSettings ==
    extrasPc = "returned" =>
        IF FastDevRunSet
        THEN config = [passed EXCEPT !.datamodule.num_workers = <<0>>,
                                     !.datamodule.pin_memory = <<FALSE>>]
        ELSE config = passed

\* C8 as amended: with fast_dev_run set, extras replaces each of trainer.gpus,
\* datamodule.pin_memory and datamodule.num_workers that holds a truthy value
\* by 0 / False / 0, leaves those three as they are when absent or falsy,
\* and leaves every other field untouched; without it no field changes.
C8_FastDevRunForcesDebugSettings ==
    extrasPc = "returned" =>
        IF FastDevRunSet
        THEN /\ config.trainer.gpus =
                   IF passed.trainer.gpus \in {<<>>, <<0>>}
                   THEN passed.trainer.gpus ELSE <<0>>
             /\ config.datamodule.pin_memory =
                   IF passed.datamodule.pin_memory = <<TRUE>>
                   THEN <<FALSE>> ELSE passed.datamodule.pin_memory
             /\ config.datamodule.num_workers =
                   IF passed.datamodule.num_workers \in {<<>>, <<0>>}
                   THEN passed.datamodule.num_workers ELSE <<0>>
             /\ [config EXCEPT !.trainer.gpus = <<>>,
                               !.datamodule.pin_memory = <<>>,
                               !.datamodule.num_workers = <<>>]
                  = [passed EXCEPT !.trainer.gpus = <<>>,
                                   !.datamodule.pin_memory = <<>>,
                                   !.datamodule.num_workers = <<>>]
        ELSE config = passed

C8_Witness ==
    /\ extrasPc = "returned"
    /\ FastDevRunSet
    /\ passed.datamodule.num_workers = <<MaxLoaderWorkers>>
    /\ passed.datamodule.pin_memory = <<TRUE>>
    /\ passed.trainer.gpus = <<1>>
    /\ config.datamodule.num_workers = <<0>>
    /\ config.datamodule.pin_memory = <<FALSE>>
    /\ config.trainer.gpus = <<0>>

\* C9: with experiment_mode set and no (or an empty) name, extras ends the
\* process before returning and before the fast_dev_run step: it never gets
\* past the name check, and in the terminated state the configuration is the
\* one passed in, also when fast_dev_run is set.
C9_ExitBeforeFastDevRun ==
    /\ NameRequiredButAbsent => extrasPc \in {"call", "verify_name", "exited"}
    /\ extrasPc = "exited" => (NameRequiredButAbsent /\ config = passed)

C9_Witness ==
    /\ extrasPc = "exited"
    /\ passed.name = <<"">>
    /\ FastDevRunSet
    /\ config.datamodule.num_workers = <<MaxLoaderWorkers>>
    /\ config.trainer.gpus = <<1>>

====
